---- MODULE Spec2Model ----
(***************************************************************************)
(* Model of scripts/hyper_parameter_tuning.py: the Optuna campaign of the  *)
(* entry point, the objective function it calls once per trial, and the   *)
(* per-epoch train / test / scheduler.step cycle inside objective.         *)
(*                                                                         *)
(* Floating-point losses are abstracted to a few finite levels plus +inf   *)
(* and NaN.  The learning rate is a numerator over LrDen, and the          *)
(* optimizer step size is kept symbolically as [num, decays], standing for *)
(* (num / LrDen) * gamma^decays.                                           *)
(***************************************************************************)
EXTENDS Integers, Sequences, FiniteSets, TLC

VARIABLES pc, args, use_cuda, loaders, rng, model, optimizer, scheduler,
          sessions, sink, epoch, test_loss, test_ret, ret, trials, best_trial

vars == <<pc, args, use_cuda, loaders, rng, model, optimizer, scheduler,
          sessions, sink, epoch, test_loss, test_ret, ret, trials, best_trial>>

(* ------------------------------ bounds --------------------------------- *)
\* number of trials of the campaign (n_trials, 100 in the entry point)
NTrials == 2
\* learning rates are k / LrDen for k in 0..LrDen
LrDen == 2
\* finite loss levels are 0..MaxLoss
MaxLoss == 1

(* ------------------------- program constants --------------------------- *)
EpochsLow == 3
EpochsHigh == 30
Seed == 1
PlaceholderLoss == 1000000
no_cuda == FALSE

(* ------------------------------ floats --------------------------------- *)
Fin(n) == [k |-> "fin", v |-> n]
PosInf == [k |-> "inf", v |-> 0]
NaN == [k |-> "nan", v |-> 0]
NoValue == [k |-> "none", v |-> 0]

\* the values the mean NLL loss computed by test() can take
Loss == {Fin(n) : n \in 0..MaxLoss} \cup {PosInf, NaN}

IsFinite(x) == x.k = "fin"
IsNaN(x) == x.k = "nan"

\* float comparison a < b: false whenever a NaN is involved
Less(a, b) ==
    \/ a.k = "fin" /\ b.k = "fin" /\ a.v < b.v
    \/ a.k = "fin" /\ b.k = "inf"

(* ------------------------ proposals (optuna) --------------------------- *)
\* trial.suggest_int(name, low, high): an integer of [low, high], both ends
\* included
suggest_int(low, high) == low..high

\* the epoch counts explored: the two lowest and the highest of the range
EpochSamples == {EpochsLow, EpochsLow + 1, EpochsHigh}

\* trial.suggest_float(name, 0, 1): a float of [0, 1], both ends included;
\* the numerators over LrDen.
suggest_float == 0..LrDen

(* ------------------------- objective: set-up --------------------------- *)
\* torch.manual_seed(args.seed)
manual_seed(s) == [seed |-> s, draws |-> 0]

\* DataLoader keyword arguments: shuffle is absent (False) by default and is
\* set to True for both loaders by cuda_kwargs.
cuda_kwargs == [shuffle |-> TRUE]
train_kwargs(cuda) == IF cuda THEN cuda_kwargs ELSE [shuffle |-> FALSE]
test_kwargs(cuda) == IF cuda THEN cuda_kwargs ELSE [shuffle |-> FALSE]

NetReused == model
\* Net().to(device): a newly initialised model, no training pass applied
Net == [updates |-> 0]

\* optim.Adam(model.parameters(), lr=args.lr)
Adam(lr) == [lr |-> [num |-> lr, decays |-> 0]]

\* StepLR(optimizer, step_size=1, gamma=args.gamma)
StepLR == [last_epoch |-> 0]

StepLR_stuck(opt) == opt
\* scheduler.step() with step_size = 1: multiply the step size by gamma
StepLR_step(opt) == [lr |-> [num |-> opt.lr.num, decays |-> opt.lr.decays + 1]]

\* one pass over a DataLoader: a shuffling loader draws a permutation
Iterate(r, shuffle) == IF shuffle THEN [r EXCEPT !.draws = @ + 1] ELSE r

wandb_log_lost(s, key, e) == s
\* wandb.log({key: value}): one history row per call; `at` is the epoch in
\* which the call was made (it is not part of the emitted row)
wandb_log(s, key, e) == Append(s, [key |-> key, at |-> e])

LoopPcOver(e, E) == IF e <= E THEN "train" ELSE "finish"
\* for epoch in range(args.epochs)
LoopPc(e, E) == IF e < E THEN "train" ELSE "finish"

KeepTestLoss(cur, l) == cur
\* test_loss = test(model, device, test_loader, epoch)
AssignTestLoss(cur, l) == l

\* the session this invocation opens
CurTrial == Len(trials) + 1

(* ------------------------------- Init ---------------------------------- *)
Init ==
    /\ pc = "idle"
    /\ args = [epochs |-> EpochsLow, lr |-> 0]
    /\ use_cuda = FALSE
    /\ loaders = [train |-> [shuffle |-> FALSE], test |-> [shuffle |-> FALSE]]
    /\ rng = [seed |-> 0, draws |-> 0]
    /\ model = [updates |-> 0]
    /\ optimizer = [lr |-> [num |-> 0, decays |-> 0]]
    /\ scheduler = [last_epoch |-> 0]
    /\ sessions = {}
    /\ sink = <<>>
    /\ epoch = 0
    /\ test_loss = NoValue
    /\ test_ret = [epoch |-> -1, val |-> NoValue]
    /\ ret = NoValue
    /\ trials = <<>>
    /\ best_trial = 0

(* --------------------------- objective --------------------------------- *)
\* lines 103-138: proposal, device, seed, loaders, model, optimizer
ObjectiveSetup ==
    /\ pc = "idle"
    /\ \E E \in suggest_int(EpochsLow, EpochsHigh) \cap EpochSamples, n \in suggest_float,
          cuda_available \in BOOLEAN :
         /\ args' = [epochs |-> E, lr |-> n]
         /\ use_cuda' = (~no_cuda /\ cuda_available)
         /\ loaders' = [train |-> train_kwargs(use_cuda'),
                        test |-> test_kwargs(use_cuda')]
         /\ optimizer' = Adam(n)
    /\ rng' = [manual_seed(Seed) EXCEPT !.draws = @ + 1]
    /\ model' = Net
    /\ pc' = "init"
    /\ UNCHANGED <<scheduler, sessions, sink, epoch, test_loss, test_ret,
                   ret, trials, best_trial>>

\* lines 131-133: the dataset download / load fails before wandb.init
SetupRaise ==
    /\ pc = "idle"
    /\ pc' = "raised"
    /\ UNCHANGED <<args, use_cuda, loaders, rng, model, optimizer, scheduler,
                   sessions, sink, epoch, test_loss, test_ret, ret, trials,
                   best_trial>>

\* lines 140-158: wandb.init, placeholder loss, scheduler, loop entry
WandbInit ==
    /\ pc = "init"
    /\ sessions' = sessions \cup {CurTrial}
    /\ sink' = <<>>
    /\ test_loss' = Fin(PlaceholderLoss)
    /\ test_ret' = [epoch |-> -1, val |-> NoValue]
    /\ scheduler' = StepLR
    /\ epoch' = 0
    /\ pc' = LoopPc(0, args.epochs)
    /\ UNCHANGED <<args, use_cuda, loaders, rng, model, optimizer, ret,
                   trials, best_trial>>

\* line 159, train(): update pass, loss pass, wandb.log(train_loss)
Train ==
    /\ pc = "train"
    /\ model' = [model EXCEPT !.updates = @ + 1]
    /\ rng' = Iterate(Iterate(rng, loaders.train.shuffle), loaders.train.shuffle)
    /\ sink' = wandb_log(sink, "train_loss", epoch)
    /\ pc' = "test"
    /\ UNCHANGED <<args, use_cuda, loaders, optimizer, scheduler, sessions,
                   epoch, test_loss, test_ret, ret, trials, best_trial>>

\* line 159: train() raises; nothing in objective catches it
TrainRaise ==
    /\ pc = "train"
    /\ pc' = "raised"
    /\ UNCHANGED <<args, use_cuda, loaders, rng, model, optimizer, scheduler,
                   sessions, sink, epoch, test_loss, test_ret, ret, trials,
                   best_trial>>

\* line 160, test(): mean loss over the test set, wandb.log(test_loss),
\* returned and assigned to test_loss
Test ==
    /\ pc = "test"
    /\ \E l \in Loss :
         /\ test_ret' = [epoch |-> epoch, val |-> l]
         /\ test_loss' = AssignTestLoss(test_loss, l)
    /\ rng' = Iterate(rng, loaders.test.shuffle)
    /\ sink' = wandb_log(sink, "test_loss", epoch)
    /\ pc' = "sched"
    /\ UNCHANGED <<args, use_cuda, loaders, model, optimizer, scheduler,
                   sessions, epoch, ret, trials, best_trial>>

\* line 160: test() raises; nothing in objective catches it
TestRaise ==
    /\ pc = "test"
    /\ pc' = "raised"
    /\ UNCHANGED <<args, use_cuda, loaders, rng, model, optimizer, scheduler,
                   sessions, sink, epoch, test_loss, test_ret, ret, trials,
                   best_trial>>

\* line 161 and the loop header: scheduler.step(), next epoch
SchedulerStep ==
    /\ pc = "sched"
    /\ scheduler' = [scheduler EXCEPT !.last_epoch = @ + 1]
    /\ optimizer' = StepLR_step(optimizer)
    /\ epoch' = epoch + 1
    /\ pc' = LoopPc(epoch + 1, args.epochs)
    /\ UNCHANGED <<args, use_cuda, loaders, rng, model, sessions, sink,
                   test_loss, test_ret, ret, trials, best_trial>>

\* lines 163-168: wandb.finish(), return test_loss (save_model is False)
Finish ==
    /\ pc = "finish"
    /\ sessions' = sessions \ {CurTrial}
    /\ ret' = test_loss
    /\ pc' = "returned"
    /\ UNCHANGED <<args, use_cuda, loaders, rng, model, optimizer, scheduler,
                   sink, epoch, test_loss, test_ret, trials, best_trial>>

(* ------------------------ study.optimize ------------------------------- *)
\* the study's best trial after a trial that returned v is stored as number i
UpdateBest(best, i, v) ==
    IF IsNaN(v) THEN best
    ELSE IF best = 0 THEN i
    ELSE IF Less(v, trials[best].value) THEN i
    ELSE best

\* objective returned: the trial is stored COMPLETE (FAIL for a NaN value),
\* the best trial is updated, the next trial starts while budget remains
TrialReturn ==
    /\ pc = "returned"
    /\ trials' = Append(trials, [state |-> IF IsNaN(ret) THEN "FAIL" ELSE "COMPLETE",
                                 value |-> ret])
    /\ best_trial' = UpdateBest(best_trial, CurTrial, ret)
    /\ ret' = NoValue
    /\ pc' = IF Len(trials') < NTrials THEN "idle" ELSE "print"
    /\ UNCHANGED <<args, use_cuda, loaders, rng, model, optimizer, scheduler,
                   sessions, sink, epoch, test_loss, test_ret>>

\* objective raised: the trial is stored FAIL and, with the default
\* catch=(), study.optimize re-raises: the process ends with a traceback
TrialRaise ==
    /\ pc = "raised"
    /\ trials' = Append(trials, [state |-> "FAIL", value |-> NoValue])
    /\ pc' = "aborted"
    /\ UNCHANGED <<args, use_cuda, loaders, rng, model, optimizer, scheduler,
                   sessions, sink, epoch, test_loss, test_ret, ret, best_trial>>

\* line 176: print(study.best_params); ValueError if no trial completed
PrintBest ==
    /\ pc = "print"
    /\ pc' = IF best_trial = 0 THEN "aborted" ELSE "done"
    /\ UNCHANGED <<args, use_cuda, loaders, rng, model, optimizer, scheduler,
                   sessions, sink, epoch, test_loss, test_ret, ret, trials,
                   best_trial>>

Next ==
    \/ ObjectiveSetup
    \/ SetupRaise
    \/ WandbInit
    \/ Train
    \/ TrainRaise
    \/ Test
    \/ TestRaise
    \/ SchedulerStep
    \/ Finish
    \/ TrialReturn
    \/ TrialRaise
    \/ PrintBest

Spec == Init /\ [][Next]_vars

(* ------------------------------ helpers -------------------------------- *)
InEpochLoop == pc \in {"train", "test", "sched"}
InObjective == pc \in {"init", "train", "test", "sched", "finish"}
LeftObjective == pc \in {"returned", "raised"}

TypeOK ==
    /\ pc \in {"idle", "init", "train", "test", "sched", "finish", "returned",
               "raised", "print", "done", "aborted"}
    /\ epoch \in 0..EpochsHigh
    /\ Len(trials) <= NTrials
    /\ best_trial \in 0..NTrials

(* ------------------------------ claims --------------------------------- *)

\* C1: every invocation of objective that opened a sink session has closed
\* it when control leaves objective, by return or by an error of train/test.
C1_SessionClosedOnExit == LeftObjective => sessions = {}

\* C2: whenever objective returns a value, it is the loss returned by the
\* test call of the last epoch (index epochs - 1) of the same invocation,
\* and not the placeholder 1000000.
C2_ReturnIsLastEval ==
    pc = "returned" =>
        /\ ret = test_ret.val
        /\ test_ret.epoch = args.epochs - 1
        /\ ret # Fin(PlaceholderLoss)

C2_Witness == pc = "returned" /\ Len(trials) = 1 /\ args.epochs = EpochsLow + 1

\* C3: when objective fails in a trial, the study's best trial is unchanged,
\* the failed trial is no candidate, and, while budget remains, the next
\* trial is started.
C3_FailedTrialSkipped ==
    [][pc = "raised" =>
          /\ best_trial' = best_trial
          /\ trials'[Len(trials')].state = "FAIL"
          /\ (Len(trials') < NTrials => pc' = "idle")]_vars

\* C4 (as stated): a run of E epochs that completes has emitted exactly E
\* records to the sink, one per epoch.
C4_OneRecordPerEpoch == pc = "returned" => Len(sink) = args.epochs

\* C4 (amended): a run of E epochs that completes has made exactly 2E
\* emissions, for each epoch in increasing order one train_loss emission
\* followed by one test_loss emission.
C4_TwoEmissionsPerEpoch ==
    pc = "returned" =>
        /\ Len(sink) = 2 * args.epochs
        /\ \A i \in 1..args.epochs :
             /\ sink[2 * i - 1] = [key |-> "train_loss", at |-> i - 1]
             /\ sink[2 * i] = [key |-> "test_loss", at |-> i - 1]

C4_Witness == pc = "returned" /\ Len(sink) = 2 * EpochsHigh

\* C5: once the trial budget is exhausted the study has a best trial and no
\* trial of the campaign has a strictly lower outcome than it.
C5_BestIsMinimum ==
    pc = "print" =>
        /\ best_trial # 0
        /\ \A i \in 1..Len(trials) :
             ~Less(trials[i].value, trials[best_trial].value)

\* C6: in every invocation, with or without CUDA, the training loader
\* shuffles and the evaluation loader does not.
C6_TrainShuffledTestFixed ==
    InEpochLoop => loaders.train.shuffle /\ ~loaders.test.shuffle

\* C7: at the start of every invocation's epoch loop the model is new, the
\* schedule has decayed 0 times, the step size is the trial's learning
\* rate, the generator was re-seeded with the fixed seed in this invocation,
\* and no session of an earlier invocation is open.
C7_FreshRunState ==
    (pc = "train" /\ epoch = 0) =>
        /\ model = [updates |-> 0]
        /\ scheduler.last_epoch = 0
        /\ optimizer.lr = [num |-> args.lr, decays |-> 0]
        /\ rng = [seed |-> Seed, draws |-> 1]
        /\ sessions \subseteq {CurTrial}

C7_Witness ==
    /\ pc = "train"
    /\ epoch = 0
    /\ Len(trials) >= 1
    /\ trials[1].state = "COMPLETE"

\* C8: the value objective returns is a finite, non-negative number.
C8_FiniteOutcome == pc = "returned" => IsFinite(ret) /\ ret.v >= 0

C10_EpochOrder ==
    /\ pc = "train" =>
         /\ optimizer.lr = [num |-> args.lr, decays |-> epoch]
         /\ model.updates = epoch
         /\ test_ret.epoch = epoch - 1
         /\ scheduler.last_epoch = epoch
    /\ pc = "test" =>
         /\ model.updates = epoch + 1
         /\ test_ret.epoch = epoch - 1
         /\ scheduler.last_epoch = epoch
    /\ pc = "sched" =>
         /\ model.updates = epoch + 1
         /\ test_ret.epoch = epoch
         /\ scheduler.last_epoch = epoch
         /\ optimizer.lr.decays = epoch

C10_Witness == pc = "test" /\ epoch = EpochsHigh - 1 /\ args.lr = 1
====
